---- MODULE Spec2Model ----
(***************************************************************************)
(* Devconnector API: the auth middleware, the registration route, the      *)
(* posts routes and the profile routes, as a state machine over the        *)
(* document store.  A request travels its route's middleware chain; the    *)
(* route handler runs in segments separated by its awaits, so requests in  *)
(* different slots interleave exactly where the event loop lets them.      *)
(***************************************************************************)
EXTENDS Integers, Sequences, FiniteSets, TLC

\* ---------------------------------------------------------------- bounds
MaxUsers == 1        \* user documents ever created
MaxIds == 1          \* ObjectIds ever generated for posts and sub-documents

\* ------------------------------------------------------ program constants
expiresIn == 36000
jwtSecret == "jwtSecret"
BadId == 0 - 1       \* a :post_id that is not a well-formed ObjectId (CastError)

Emails == {"a@x.com", "b@x.com"}
\* sample instants of the wall clock, in seconds, around a token's expiry
Instants == {0, expiresIn - 1, expiresIn}
Slots == {1, 2}

VARIABLES users, profiles, posts, nextUid, nextId, issued, clock, crashed,
          reqs, cap

store == <<users, profiles, posts>>
vars == <<users, profiles, posts, nextUid, nextId, issued, clock, crashed,
          reqs, cap>>

\* the ids a client can name in a URL: those the run can generate, and a
\* string that is no ObjectId
Ids == 1..cap.ids
ParamIds == Ids \cup {BadId}

\* ------------------------------------------------------------ token codec
HMAC(secret, user, iat, exp) == <<secret, user, iat, exp>>

NoToken == [kind |-> "absent", user |-> 0, iat |-> 0, exp |-> 0, sig |-> <<>>]
Garbage == [kind |-> "garbage", user |-> 0, iat |-> 0, exp |-> 0, sig |-> <<>>]

\* jwt.sign that stamps a tenth of the lifetime it is given
signShort(uid, secret, ttl, now) ==
  [kind |-> "jwt", user |-> uid, iat |-> now, exp |-> now + (ttl \div 10),
   sig |-> HMAC(secret, uid, now, now + (ttl \div 10))]

\* jwt.sign(payload, secret, { expiresIn })
sign(uid, secret, ttl, now) ==
  [kind |-> "jwt", user |-> uid, iat |-> now, exp |-> now + ttl,
   sig |-> HMAC(secret, uid, now, now + ttl)]

\* jwt.verify that still accepts a token at the very second it expires
verifyLate(tok, secret, now) ==
  IF tok.kind # "jwt"
    THEN [ok |-> FALSE, err |-> "jwt malformed", user |-> 0]
  ELSE IF tok.sig # HMAC(secret, tok.user, tok.iat, tok.exp)
    THEN [ok |-> FALSE, err |-> "invalid signature", user |-> 0]
  ELSE IF now > tok.exp
    THEN [ok |-> FALSE, err |-> "jwt expired", user |-> 0]
  ELSE [ok |-> TRUE, err |-> "", user |-> tok.user]

\* jwt.verify(token, secret): the decoded payload, or the error it throws
verify(tok, secret, now) ==
  IF tok.kind # "jwt"
    THEN [ok |-> FALSE, err |-> "jwt malformed", user |-> 0]
  ELSE IF tok.sig # HMAC(secret, tok.user, tok.iat, tok.exp)
    THEN [ok |-> FALSE, err |-> "invalid signature", user |-> 0]
  ELSE IF now >= tok.exp
    THEN [ok |-> FALSE, err |-> "jwt expired", user |-> 0]
  ELSE [ok |-> TRUE, err |-> "", user |-> tok.user]

\* what a client can put in x-auth-token: nothing, junk, a token it was
\* given, or such a token with its payload or signature altered
Resigned(t) == [t EXCEPT !.sig = HMAC("guess", t.user, t.iat, t.exp)]
Extended(t) == [t EXCEPT !.exp = t.exp + expiresIn]
TokenInputs ==
  {NoToken, Garbage} \cup issued
    \cup {Resigned(t) : t \in issued} \cup {Extended(t) : t \in issued}

\* ------------------------------------------------------------- documents
NullDoc == [found |-> FALSE, user |-> 0, likes |-> <<>>, comments |-> <<>>,
            experience |-> <<>>, education |-> <<>>]
PostDoc(p) == [found |-> TRUE, user |-> p.user, likes |-> p.likes,
               comments |-> p.comments, experience |-> <<>>, education |-> <<>>]
ProfileDoc(p) == [found |-> TRUE, user |-> 0, likes |-> <<>>, comments |-> <<>>,
                  experience |-> p.experience, education |-> p.education]

\* Model.findById / findOne: the document, or null
findPost(id) == IF id \in DOMAIN posts THEN PostDoc(posts[id]) ELSE NullDoc
findProfile(uid) ==
  IF uid \in DOMAIN profiles THEN ProfileDoc(profiles[uid]) ELSE NullDoc

Without(f, k) == [x \in (DOMAIN f) \ {k} |-> f[x]]
With(f, k, v) == [x \in (DOMAIN f) \cup {k} |-> IF x = k THEN v ELSE f[x]]

\* Array.prototype.indexOf, 0-based, -1 when absent
RECURSIVE indexFrom(_, _, _)
indexFrom(seq, x, i) ==
  IF i > Len(seq) THEN 0 - 1
  ELSE IF seq[i] = x THEN i - 1
  ELSE indexFrom(seq, x, i + 1)
indexOf(seq, x) == indexFrom(seq, x, 1)

\* Array.prototype.splice(start, 1): a negative start counts from the end
splice(seq, start) ==
  LET n == Len(seq)
      from == IF start < 0 THEN (IF n + start < 0 THEN 0 ELSE n + start)
              ELSE (IF start > n THEN n ELSE start)
  IN [i \in 1..(IF from < n THEN n - 1 ELSE n) |->
        IF i <= from THEN seq[i] ELSE seq[i + 1]]

unshift(seq, x) == <<x>> \o seq

\* ---------------------------------------------------------------- routes
PostRoutes == {"createPost", "getPosts", "getPost", "deletePost", "likePost",
               "unlikePost", "addComment", "deleteComment"}
ProfileRoutes == {"getMe", "upsertProfile", "deleteProfile", "addExperience",
                  "deleteExperience", "addEducation", "deleteEducation"}
Routes == {"register"} \cup PostRoutes \cup ProfileRoutes

HasValidators(route) ==
  route \in {"register", "createPost", "addComment", "upsertProfile",
             "addExperience", "addEducation"}
HasPostParam(route) ==
  route \in {"getPost", "deletePost", "likePost", "unlikePost", "addComment",
             "deleteComment"}
HasSubParam(route) ==
  route \in {"deleteComment", "deleteExperience", "deleteEducation"}

\* routes registered without the auth middleware
ChainNoAuth(route) ==
  IF HasValidators(route) THEN <<"validators", "handler">> ELSE <<"handler">>

\* the middleware chain each router.<verb>() call registers, in order
Chain(route) ==
  IF route = "register" THEN <<"validators", "handler">>
  ELSE IF HasValidators(route) THEN <<"auth", "validators", "handler">>
  ELSE <<"auth", "handler">>

\* 'Server Error' or 'Server Error!', as each catch block spells it
ServerError(route) ==
  IF route \in {"register", "getMe", "upsertProfile", "deleteProfile"}
    THEN "Server Error" ELSE "Server Error!"

\* -------------------------------------------------------------- requests
Idle == [route |-> "idle", tok |-> NoToken, pid |-> 0, sid |-> 0,
         valid |-> TRUE, email |-> "", stage |-> 0, hpc |-> "done",
         user |-> 0, doc |-> NullDoc, iat |-> 0, status |-> 0, msg |-> "",
         log |-> {}, fault |-> "none"]

Log(r, ev) == [r EXCEPT !.log = @ \cup ev]
\* what a removal-index lookup adds to the record of a request: "miss" when
\* indexOf found nothing
Looked(removeIndex) == IF removeIndex < 0 THEN {"miss"} ELSE {}
\* res.status(st).json/send(m): the request is answered and over
Resp(r, st, m) ==
  [r EXCEPT !.status = st, !.msg = m, !.stage = 0, !.hpc = "done",
            !.pid = 0, !.sid = 0, !.valid = TRUE, !.email = "",
            !.doc = NullDoc, !.iat = 0]
\* an exception reaching the handler's catch block
Caught(r, kind) ==
  Resp([r EXCEPT !.fault = kind], 500, ServerError(r.route))
Goto(r, pc) == [r EXCEPT !.hpc = pc]
Set(s, r) == reqs' = [reqs EXCEPT ![s] = r]

At(s, what) ==
  /\ ~crashed
  /\ reqs[s].stage > 0
  /\ Chain(reqs[s].route)[reqs[s].stage] = what
Handles(s, route) == At(s, "handler") /\ reqs[s].route = route

InitCap(maxUsers, maxIds) ==
  /\ cap = [users |-> maxUsers, ids |-> maxIds]
  /\ users = <<>>
  /\ profiles = <<>>
  /\ posts = <<>>
  /\ nextUid = 1
  /\ nextId = 1
  /\ issued = {}
  /\ clock = 0
  /\ crashed = FALSE
  /\ reqs = [s \in Slots |-> Idle]

Init == InitCap(MaxUsers, MaxIds)

\* the middleware without its check for a missing header
authNoHeaderCheck(r, now) ==
  LET decoded == verify(r.tok, jwtSecret, now) IN
  IF decoded.ok
    THEN [r EXCEPT !.user = decoded.user, !.stage = @ + 1]
  ELSE Resp(r, 401, "Token is not valid!")

\* middleware/auth.js: answers 401, or sets req.user and calls next()
auth(r, now) ==
  LET decoded == verify(r.tok, jwtSecret, now) IN
  IF r.tok.kind = "absent"
    THEN Resp(r, 401, "No token, Authorization denied!")
  ELSE IF decoded.ok
    THEN [r EXCEPT !.user = decoded.user, !.stage = @ + 1]
  ELSE Resp(r, 401, "Token is not valid!")

\* the router hands a new request to the first element of its route's chain;
\* the auth middleware is synchronous and runs at once
dispatch(r, now) ==
  IF Chain(r.route)[r.stage] = "auth" THEN auth(r, now) ELSE r

\* a client sends a request over a free connection
Arrive(s, allowed) ==
  /\ ~crashed
  /\ reqs[s].route = "idle"
  /\ \E route \in allowed :
     \E tok \in (IF route = "register" THEN {NoToken} ELSE TokenInputs) :
     \E pid \in (IF HasPostParam(route) THEN ParamIds ELSE {0}) :
     \E sid \in (IF HasSubParam(route) THEN Ids ELSE {0}) :
     \E valid \in (IF HasValidators(route) THEN BOOLEAN ELSE {TRUE}) :
     \E email \in (IF route = "register" THEN Emails ELSE {""}) :
       Set(s, dispatch([Idle EXCEPT !.route = route, !.tok = tok,
                                    !.pid = pid, !.sid = sid,
                                    !.valid = valid, !.email = email,
                                    !.stage = 1, !.hpc = "start"], clock))
  /\ UNCHANGED <<users, profiles, posts, nextUid, nextId, issued, clock,
                 crashed, cap>>

\* the client has read the response; the connection is free again
Close(s) ==
  /\ ~crashed
  /\ reqs[s].route # "idle"
  /\ reqs[s].stage = 0
  /\ Set(s, Idle)
  /\ UNCHANGED <<users, profiles, posts, nextUid, nextId, issued, clock,
                 crashed, cap>>

\* time passes
Tick ==
  /\ ~crashed
  /\ \E t \in Instants : t > clock /\ clock' = t
  /\ UNCHANGED <<users, profiles, posts, nextUid, nextId, issued, crashed,
                 reqs, cap>>

\* the express-validator check() chain: collects errors, always calls next
validators(s) ==
  /\ At(s, "validators")
  /\ Set(s, dispatch([reqs[s] EXCEPT !.stage = @ + 1], clock))
  /\ UNCHANGED <<users, profiles, posts, nextUid, nextId, issued, clock,
                 crashed, cap>>

\* a lookup that compares the email with the wrong field and never matches
findUserByName(email) == \E u \in DOMAIN users : users[u].email = "name"

\* User.findOne({ email }): is there such a user
findUserByEmail(email) == \E u \in DOMAIN users : users[u].email = email

\* user.save() of a new User document: the store keeps the record under its
\* id
createUser(uid, email) == With(users, uid, [email |-> email])

\* POST api/users
register(s) ==
  LET r == reqs[s] IN
  /\ Handles(s, "register")
  /\ \E ok \in BOOLEAN : \E signs \in {"later", "throws"} :
     CASE r.hpc = "start" ->
            /\ UNCHANGED <<users, nextUid, issued, crashed, cap>>
            /\ IF ~r.valid
                 THEN Set(s, Resp(Log(r, {"validated"}), 400, "errors"))
               ELSE IF ~ok
                 THEN Set(s, Caught(Log(r, {"validated"}), "store"))
               ELSE IF findUserByEmail(r.email)
                 THEN Set(s, Resp(Log(r, {"validated", "read"}), 400,
                                  "User Already exists!"))
               ELSE Set(s, Goto(Log(r, {"validated", "read"}), "save"))
       [] r.hpc = "save" ->
            /\ UNCHANGED <<issued, crashed, cap>>
            /\ IF ~ok
                 THEN /\ Set(s, Caught(r, "store"))
                      /\ UNCHANGED <<users, nextUid>>
               ELSE /\ nextUid <= cap.users
                    /\ users' = createUser(nextUid, r.email)
                    /\ nextUid' = nextUid + 1
                    /\ IF signs = "throws"
                         THEN Set(s, Caught([Log(r, {"write"}) EXCEPT
                                               !.user = nextUid], "sign"))
                         ELSE Set(s, Goto([Log(r, {"write"}) EXCEPT
                                             !.user = nextUid, !.iat = clock],
                                          "sign"))
       [] r.hpc = "sign" ->
            /\ UNCHANGED <<users, nextUid>>
            /\ IF ok
                 THEN /\ issued' = issued \cup
                                   {sign(r.user, jwtSecret, expiresIn, r.iat)}
                      /\ Set(s, Resp(r, 200, "token"))
                      /\ UNCHANGED crashed
                 ELSE /\ crashed' = TRUE
                      /\ Set(s, [r EXCEPT !.fault = "sign"])
                      /\ UNCHANGED issued
  /\ UNCHANGED <<profiles, posts, nextId, clock, cap>>

\* POST api/posts
createPost(s) ==
  LET r == reqs[s] IN
  /\ Handles(s, "createPost")
  /\ \E ok \in BOOLEAN :
     CASE r.hpc = "start" ->
            /\ UNCHANGED <<posts, nextId>>
            /\ IF ~r.valid
                 THEN Set(s, Resp(Log(r, {"validated"}), 400, "errors"))
               ELSE IF ~ok
                 THEN Set(s, Caught(Log(r, {"validated"}), "store"))
               ELSE IF r.user \notin DOMAIN users
                 THEN Set(s, Caught(Log(r, {"validated", "read"}), "deref"))
               ELSE Set(s, Goto(Log(r, {"validated", "read"}), "save"))
       [] r.hpc = "save" ->
            IF ~ok
              THEN Set(s, Caught(r, "store")) /\ UNCHANGED <<posts, nextId>>
              ELSE /\ nextId <= cap.ids
                   /\ posts' = With(posts, nextId,
                                    [user |-> r.user, likes |-> <<>>,
                                     comments |-> <<>>])
                   /\ nextId' = nextId + 1
                   /\ Set(s, Resp(Log(r, {"write"}), 200, "post"))
  /\ UNCHANGED <<users, profiles, nextUid, issued, clock, crashed, cap>>

\* GET api/posts
getPosts(s) ==
  LET r == reqs[s] IN
  /\ Handles(s, "getPosts")
  /\ \E ok \in BOOLEAN :
       IF ok THEN Set(s, Resp(Log(r, {"read"}), 200, "posts"))
             ELSE Set(s, Caught(r, "store"))
  /\ UNCHANGED <<users, profiles, posts, nextUid, nextId, issued, clock,
                 crashed, cap>>

\* GET api/posts/:post_id
getPost(s) ==
  LET r == reqs[s] IN
  /\ Handles(s, "getPost")
  /\ \E ok \in BOOLEAN :
       IF r.pid = BadId
         THEN Set(s, Resp([r EXCEPT !.fault = "cast"], 404, "Post not Found!"))
       ELSE IF ~ok THEN Set(s, Caught(r, "store"))
       ELSE IF ~findPost(r.pid).found
         THEN Set(s, Resp(Log(r, {"read"}), 404, "Post not Found!"))
       ELSE Set(s, Resp(Log(r, {"read"}), 200, "post"))
  /\ UNCHANGED <<users, profiles, posts, nextUid, nextId, issued, clock,
                 crashed, cap>>

\* DELETE api/posts/:post_id
deletePost(s) ==
  LET r == reqs[s]
      post == findPost(r.pid)
  IN
  /\ Handles(s, "deletePost")
  /\ \E ok \in BOOLEAN :
     CASE r.hpc = "start" ->
            /\ UNCHANGED posts
            /\ IF r.pid = BadId
                 THEN Set(s, Resp([r EXCEPT !.fault = "cast"], 404,
                                  "Post not Found!"))
               ELSE IF ~ok THEN Set(s, Caught(r, "store"))
               ELSE IF ~post.found
                 THEN Set(s, Resp(Log(r, {"read"}), 404, "Post not Found!"))
               ELSE IF post.user # r.user
                 THEN Set(s, Resp(Log(r, {"read", "owner"}), 401,
                                  "User not Authorized!"))
               ELSE Set(s, Goto(Log(r, {"read", "owner"}), "remove"))
       [] r.hpc = "remove" ->
            IF ~ok
              THEN Set(s, Caught(r, "store")) /\ UNCHANGED posts
              ELSE /\ posts' = Without(posts, r.pid)
                   /\ Set(s, Resp(Log(r, {"write"}), 200, "Post Removed!"))
  /\ UNCHANGED <<users, profiles, nextUid, nextId, issued, clock, crashed, cap>>

UserDoc(uid) == [NullDoc EXCEPT !.found = (uid \in DOMAIN users), !.user = uid]
\* a test that looks at the newest like only
likedFirst(likes, uid) == Len(likes) > 0 /\ likes[1] = uid

\* post.likes.filter((like) => like.user.toString() === req.user.id).length > 0
liked(likes, uid) == \E i \in 1..Len(likes) : likes[i] = uid
\* post.save() / profile.save(): writes the loaded document's arrays back
savePost(id, doc) ==
  IF id \in DOMAIN posts
    THEN [posts EXCEPT ![id] = [user |-> @.user, likes |-> doc.likes,
                                comments |-> doc.comments]]
    ELSE posts
saveProfile(uid, doc) ==
  IF uid \in DOMAIN profiles
    THEN [profiles EXCEPT ![uid] = [experience |-> doc.experience,
                                    education |-> doc.education]]
    ELSE profiles

\* PUT api/posts/like/:post_id
likePost(s) ==
  LET r == reqs[s] IN
  /\ Handles(s, "likePost")
  /\ \E ok \in BOOLEAN :
     CASE r.hpc = "start" ->
            /\ UNCHANGED posts
            /\ IF r.pid = BadId THEN Set(s, Caught(r, "cast"))
               ELSE IF ~ok THEN Set(s, Caught(r, "store"))
               ELSE Set(s, Goto([Log(r, {"read"}) EXCEPT
                                   !.doc = findPost(r.pid)], "user"))
       [] r.hpc = "user" ->
            /\ UNCHANGED posts
            /\ IF ~ok THEN Set(s, Caught(r, "store"))
               ELSE IF ~r.doc.found THEN Set(s, Caught(r, "deref"))
               ELSE IF liked(r.doc.likes, r.user)
                 THEN Set(s, Resp(r, 400, "Post already liked!"))
               ELSE IF r.user \notin DOMAIN users
                 THEN Set(s, Caught(r, "deref"))
               ELSE Set(s, Goto([r EXCEPT !.doc.likes = unshift(@, r.user)],
                                "save"))
       [] r.hpc = "save" ->
            IF ~ok
              THEN Set(s, Caught(r, "store")) /\ UNCHANGED posts
              ELSE /\ posts' = savePost(r.pid, r.doc)
                   /\ Set(s, Resp(Log(r, {"write"}), 200, "likes"))
  /\ UNCHANGED <<users, profiles, nextUid, nextId, issued, clock, crashed, cap>>

\* PUT api/posts/unlike/:post_id
unlikePost(s) ==
  LET r == reqs[s]
      post == findPost(r.pid)
      removeIndex == indexOf(post.likes, r.user)
  IN
  /\ Handles(s, "unlikePost")
  /\ \E ok \in BOOLEAN :
     CASE r.hpc = "start" ->
            /\ UNCHANGED posts
            /\ IF r.pid = BadId THEN Set(s, Caught(r, "cast"))
               ELSE IF ~ok THEN Set(s, Caught(r, "store"))
               ELSE IF ~post.found
                 THEN Set(s, Caught(Log(r, {"read"}), "deref"))
               ELSE IF ~liked(post.likes, r.user)
                 THEN Set(s, Resp(Log(r, {"read"}), 400,
                                  "Post has not been liked yet!"))
               ELSE Set(s, Goto([Log(r, {"read"} \cup Looked(removeIndex))
                                   EXCEPT !.doc = [post EXCEPT !.likes =
                                                     splice(@, removeIndex)]],
                                "save"))
       [] r.hpc = "save" ->
            IF ~ok
              THEN Set(s, Caught(r, "store")) /\ UNCHANGED posts
              ELSE /\ posts' = savePost(r.pid, r.doc)
                   /\ Set(s, Resp(Log(r, {"write"}), 200, "likes"))
  /\ UNCHANGED <<users, profiles, nextUid, nextId, issued, clock, crashed, cap>>

\* POST api/posts/comment/:post_id
addComment(s) ==
  LET r == reqs[s]
      post == findPost(r.pid)
      newComment == [id |-> nextId, user |-> r.user]
  IN
  /\ Handles(s, "addComment")
  /\ \E ok \in BOOLEAN :
     CASE r.hpc = "start" ->
            /\ UNCHANGED <<posts, nextId>>
            /\ IF ~r.valid
                 THEN Set(s, Resp(Log(r, {"validated"}), 400, "errors"))
               ELSE IF ~ok
                 THEN Set(s, Caught(Log(r, {"validated"}), "store"))
               ELSE Set(s, Goto([Log(r, {"validated", "read"}) EXCEPT
                                   !.doc = UserDoc(r.user)], "post"))
       [] r.hpc = "post" ->
            /\ UNCHANGED posts
            /\ IF r.pid = BadId
                 THEN Set(s, Caught(r, "cast")) /\ UNCHANGED nextId
               ELSE IF ~ok
                 THEN Set(s, Caught(r, "store")) /\ UNCHANGED nextId
               ELSE IF ~r.doc.found \/ ~post.found
                 THEN Set(s, Caught(r, "deref")) /\ UNCHANGED nextId
               ELSE /\ nextId <= cap.ids
                    /\ nextId' = nextId + 1
                    /\ Set(s, Goto([r EXCEPT !.doc =
                                      [post EXCEPT !.comments =
                                         unshift(@, newComment)]], "save"))
       [] r.hpc = "save" ->
            /\ UNCHANGED nextId
            /\ IF ~ok
                 THEN Set(s, Caught(r, "store")) /\ UNCHANGED posts
                 ELSE /\ posts' = savePost(r.pid, r.doc)
                      /\ Set(s, Resp(Log(r, {"write"}), 200, "comments"))
  /\ UNCHANGED <<users, profiles, nextUid, issued, clock, crashed, cap>>

\* a property read off a comment sub-document; 0 stands for undefined
Undefined == 0
commentField(c, field) ==
  IF field = "id" THEN c.id
  ELSE IF field = "user" THEN c.user
  ELSE Undefined

\* DELETE api/posts/comment/:post_id/:comment_id
deleteComment(s) ==
  LET r == reqs[s]
      post == findPost(r.pid)
      found == {i \in 1..Len(post.comments) : post.comments[i].id = r.sid}
      comment == post.comments[CHOOSE i \in found : \A j \in found : i <= j]
      keys == [i \in 1..Len(post.comments) |->
                 commentField(post.comments[i], "idnpm")]
      removeIndex == indexOf(keys, r.sid)
  IN
  /\ Handles(s, "deleteComment")
  /\ \E ok \in BOOLEAN :
     CASE r.hpc = "start" ->
            /\ UNCHANGED posts
            /\ IF r.pid = BadId THEN Set(s, Caught(r, "cast"))
               ELSE IF ~ok THEN Set(s, Caught(r, "store"))
               ELSE IF ~post.found
                 THEN Set(s, Caught(Log(r, {"read"}), "deref"))
               ELSE IF found = {}
                 THEN Set(s, Resp(Log(r, {"read"}), 404,
                                  "Comment does not exist!"))
               ELSE IF comment.user # r.user
                 THEN Set(s, Resp(Log(r, {"read", "owner"}), 401,
                                  "User not Authorized!"))
               ELSE IF \E i \in 1..Len(keys) : keys[i] = Undefined
                 THEN Set(s, Caught(Log(r, {"read", "owner"}), "deref"))
               ELSE Set(s, Goto([Log(r, {"read", "owner"}
                                          \cup Looked(removeIndex))
                                   EXCEPT !.doc = [post EXCEPT !.comments =
                                                     splice(@, removeIndex)]],
                                "save"))
       [] r.hpc = "save" ->
            IF ~ok
              THEN Set(s, Caught(r, "store")) /\ UNCHANGED posts
              ELSE /\ posts' = savePost(r.pid, r.doc)
                   /\ Set(s, Resp(Log(r, {"write"}), 200, "comments"))
  /\ UNCHANGED <<users, profiles, nextUid, nextId, issued, clock, crashed, cap>>

\* GET api/profile/me
getMe(s) ==
  LET r == reqs[s] IN
  /\ Handles(s, "getMe")
  /\ \E ok \in BOOLEAN :
       IF ~ok THEN Set(s, Caught(r, "store"))
       ELSE IF ~findProfile(r.user).found
         THEN Set(s, Resp(Log(r, {"read"}), 400,
                          "There is no profile for this user!"))
       ELSE Set(s, Resp(Log(r, {"read"}), 200, "profile"))
  /\ UNCHANGED <<users, profiles, posts, nextUid, nextId, issued, clock,
                 crashed, cap>>

\* POST api/profile
upsertProfile(s) ==
  LET r == reqs[s] IN
  /\ Handles(s, "upsertProfile")
  /\ \E ok \in BOOLEAN :
     CASE r.hpc = "start" ->
            /\ UNCHANGED profiles
            /\ IF ~r.valid
                 THEN Set(s, Resp(Log(r, {"validated"}), 400, "errors"))
               ELSE IF ~ok
                 THEN Set(s, Caught(Log(r, {"validated"}), "store"))
               ELSE IF findProfile(r.user).found
                 THEN Set(s, Goto(Log(r, {"validated", "read"}), "update"))
               ELSE Set(s, Goto(Log(r, {"validated", "read"}), "save"))
       [] r.hpc = "update" ->
            /\ UNCHANGED profiles
            /\ IF ~ok THEN Set(s, Caught(r, "store"))
               ELSE Set(s, Resp(Log(r, {"write"}), 200, "profile"))
       [] r.hpc = "save" ->
            IF ~ok
              THEN Set(s, Caught(r, "store")) /\ UNCHANGED profiles
              ELSE /\ profiles' =
                        IF r.user \in DOMAIN profiles THEN profiles
                        ELSE With(profiles, r.user,
                                  [experience |-> <<>>, education |-> <<>>])
                   /\ Set(s, Resp(Log(r, {"write"}), 200, "profile"))
  /\ UNCHANGED <<users, posts, nextUid, nextId, issued, clock, crashed, cap>>

\* DELETE api/profile
deleteProfile(s) ==
  LET r == reqs[s] IN
  /\ Handles(s, "deleteProfile")
  /\ \E ok \in BOOLEAN :
     CASE r.hpc = "start" ->
            /\ UNCHANGED users
            /\ IF ~ok
                 THEN Set(s, Caught(r, "store")) /\ UNCHANGED profiles
                 ELSE /\ profiles' = Without(profiles, r.user)
                      /\ Set(s, Goto(Log(r, {"write"}), "user"))
       [] r.hpc = "user" ->
            /\ UNCHANGED profiles
            /\ IF ~ok
                 THEN Set(s, Caught(r, "store")) /\ UNCHANGED users
                 ELSE /\ users' = Without(users, r.user)
                      /\ Set(s, Resp(r, 200, "User Removed!"))
  /\ UNCHANGED <<posts, nextUid, nextId, issued, clock, crashed, cap>>

\* PUT api/profile/experience and PUT api/profile/education
addEntry(s, route, list) ==
  LET r == reqs[s]
      profile == findProfile(r.user)
  IN
  /\ Handles(s, route)
  /\ \E ok \in BOOLEAN :
     CASE r.hpc = "start" ->
            /\ UNCHANGED profiles
            /\ IF ~r.valid
                 THEN Set(s, Resp(Log(r, {"validated"}), 400, "errors"))
                      /\ UNCHANGED nextId
               ELSE IF ~ok
                 THEN Set(s, Caught(Log(r, {"validated"}), "store"))
                      /\ UNCHANGED nextId
               ELSE IF ~profile.found
                 THEN Set(s, Caught(Log(r, {"validated", "read"}), "deref"))
                      /\ UNCHANGED nextId
               ELSE /\ nextId <= cap.ids
                    /\ nextId' = nextId + 1
                    /\ Set(s, Goto([Log(r, {"validated", "read"}) EXCEPT
                                      !.doc = [profile EXCEPT ![list] =
                                                 unshift(@, nextId)]],
                                   "save"))
       [] r.hpc = "save" ->
            /\ UNCHANGED nextId
            /\ IF ~ok
                 THEN Set(s, Caught(r, "store")) /\ UNCHANGED profiles
                 ELSE /\ profiles' = saveProfile(r.user, r.doc)
                      /\ Set(s, Resp(Log(r, {"write"}), 200, "profile"))
  /\ UNCHANGED <<users, posts, nextUid, issued, clock, crashed, cap>>

addExperience(s) == addEntry(s, "addExperience", "experience")
addEducation(s) == addEntry(s, "addEducation", "education")

\* DELETE api/profile/experience/:exp_id and DELETE api/profile/education/:edu_id
deleteEntry(s, route, list) ==
  LET r == reqs[s]
      profile == findProfile(r.user)
      removeIndex == indexOf(profile[list], r.sid)
  IN
  /\ Handles(s, route)
  /\ \E ok \in BOOLEAN :
     CASE r.hpc = "start" ->
            /\ UNCHANGED profiles
            /\ IF ~ok THEN Set(s, Caught(r, "store"))
               ELSE IF ~profile.found
                 THEN Set(s, Caught(Log(r, {"read"}), "deref"))
               ELSE Set(s, Goto([Log(r, {"read"} \cup Looked(removeIndex))
                                   EXCEPT !.doc = [profile EXCEPT ![list] =
                                                     splice(@, removeIndex)]],
                                "save"))
       [] r.hpc = "save" ->
            IF ~ok
              THEN Set(s, Caught(r, "store")) /\ UNCHANGED profiles
              ELSE /\ profiles' = saveProfile(r.user, r.doc)
                   /\ Set(s, Resp(Log(r, {"write"}), 200, "profile"))
  /\ UNCHANGED <<users, posts, nextUid, nextId, issued, clock, crashed, cap>>

deleteExperience(s) == deleteEntry(s, "deleteExperience", "experience")
deleteEducation(s) == deleteEntry(s, "deleteEducation", "education")

\* ------------------------------------------------------- specifications
\* one client connection: requests are served one after another
Next ==
  \/ Arrive(1, Routes)
  \/ Close(1)
  \/ Tick
  \/ validators(1)
  \/ register(1)
  \/ createPost(1)
  \/ getPosts(1)
  \/ getPost(1)
  \/ deletePost(1)
  \/ likePost(1)
  \/ unlikePost(1)
  \/ addComment(1)
  \/ deleteComment(1)
  \/ getMe(1)
  \/ upsertProfile(1)
  \/ deleteProfile(1)
  \/ addExperience(1)
  \/ deleteExperience(1)
  \/ addEducation(1)
  \/ deleteEducation(1)

Spec == Init /\ [][Next]_vars
\* the same server with room for one more user, or one more ObjectId
SpecUsers == InitCap(MaxUsers + 1, MaxIds) /\ [][Next]_vars
SpecIds == InitCap(MaxUsers, MaxIds + 1) /\ [][Next]_vars

\* two client connections: the segments of two handlers interleave at their
\* awaits.  The routes that lead to likes on a post, with two users
LikeRoutes == {"register", "createPost", "likePost", "unlikePost"}
NextLikes ==
  \E s \in Slots :
    \/ Arrive(s, LikeRoutes)
    \/ Close(s)
    \/ validators(s)
    \/ register(s)
    \/ createPost(s)
    \/ likePost(s)
    \/ unlikePost(s)
SpecLikes == InitCap(MaxUsers + 1, MaxIds) /\ [][NextLikes]_vars

\* two client connections that register users concurrently
NextRegister ==
  \E s \in Slots :
    \/ Arrive(s, {"register"})
    \/ Close(s)
    \/ validators(s)
    \/ register(s)
SpecRegister == InitCap(MaxUsers + 1, MaxIds) /\ [][NextRegister]_vars

\* ------------------------------------------------------------ properties
Protected(route) == route \in PostRoutes \cup ProfileRoutes
\* a step in which slot s takes in a new request (and runs its first,
\* synchronous middleware)
Arrived(s) == reqs[s].route = "idle" /\ reqs'[s].route # "idle"
\* a step of the request in flight in slot s
Stepped(s) == reqs[s].stage > 0 /\ reqs'[s] # reqs[s]
InHandler(r) == r.stage > 0 /\ Chain(r.route)[r.stage] = "handler"
AuthRejected(r) ==
  /\ r.status = 401
  /\ r.msg \in {"No token, Authorization denied!", "Token is not valid!"}

\* C1: a request to a protected route without an x-auth-token header is
\* answered 401 {msg: "No token, Authorization denied!"}; the next handler is
\* not invoked (the request is over, with no identity and no handler step
\* logged) and the store is as it was.
C1_NoTokenDenied ==
  [][\A s \in Slots :
       (Arrived(s) /\ Protected(reqs'[s].route)
          /\ reqs'[s].tok.kind = "absent")
       => /\ reqs'[s].status = 401
          /\ reqs'[s].msg = "No token, Authorization denied!"
          /\ reqs'[s].stage = 0
          /\ reqs'[s].user = 0
          /\ reqs'[s].log = {}
          /\ store' = store]_vars

C1_Witness ==
  \E s \in Slots :
    /\ Protected(reqs[s].route)
    /\ reqs[s].tok.kind = "absent"
    /\ reqs[s].status = 401
    /\ reqs[s].msg = "No token, Authorization denied!"

SignatureOk(t) == t.sig = HMAC(jwtSecret, t.user, t.iat, t.exp)
\* malformed, signature mismatch, or presented at or after issuance + TTL
FailsVerification(t, now) ==
  \/ t.kind = "garbage"
  \/ t.kind = "jwt" /\ ~SignatureOk(t)
  \/ t.kind = "jwt" /\ now >= t.iat + 36000

\* C2: a request whose token fails verification, whatever the reason
\* (malformed, wrong signature, expired), is answered the one 401
\* {msg: "Token is not valid!"}; the next handler is not invoked and no
\* identity is attached to the request.
C2_InvalidTokenDenied ==
  [][\A s \in Slots :
       (Arrived(s) /\ Protected(reqs'[s].route)
          /\ FailsVerification(reqs'[s].tok, clock))
       => /\ reqs'[s].status = 401
          /\ reqs'[s].msg = "Token is not valid!"
          /\ reqs'[s].stage = 0
          /\ reqs'[s].user = 0
          /\ reqs'[s].log = {}
          /\ store' = store]_vars

\* a token the server issued, correctly signed, refused on its expiry second
C2_Witness ==
  \E s \in Slots :
    /\ Protected(reqs[s].route)
    /\ reqs[s].tok \in issued
    /\ clock = reqs[s].tok.iat + 36000
    /\ reqs[s].status = 401
    /\ reqs[s].msg = "Token is not valid!"
    /\ reqs[s].user = 0

\* C3: a token issued at registration carries the id of the user that
\* registration created and a lifetime of 36000 s; presented strictly before
\* its expiry it passes the auth middleware, the identity attached to the
\* request is the token's, and it stays the same for the rest of the request.
C3_IssuedTokenAccepted ==
  [][/\ \A t \in issued' \ issued :
          /\ t.exp = t.iat + 36000
          /\ SignatureOk(t)
          /\ \E s \in Slots : /\ reqs[s].route = "register"
                              /\ reqs[s].hpc = "sign"
                              /\ "write" \in reqs[s].log
                              /\ t.user = reqs[s].user
                              /\ t.iat = reqs[s].iat
     /\ \A s \in Slots :
          /\ (Arrived(s) /\ Protected(reqs'[s].route)
                /\ reqs'[s].tok \in issued
                /\ clock < reqs'[s].tok.iat + 36000)
             => /\ reqs'[s].status = 0
                /\ reqs'[s].stage = 2
                /\ reqs'[s].user = reqs'[s].tok.user
          /\ (Stepped(s) /\ Protected(reqs[s].route)
                /\ reqs'[s].route # "idle")
             => reqs'[s].user = reqs[s].user]_vars

\* a handler has answered 200 to a request authenticated one second before
\* its token expires
C3_Witness ==
  \E s \in Slots :
    /\ Protected(reqs[s].route)
    /\ reqs[s].tok \in issued
    /\ clock = reqs[s].tok.exp - 1
    /\ reqs[s].user = reqs[s].tok.user
    /\ reqs[s].user # 0
    /\ reqs[s].status = 200

\* C4: in a request to a protected route the auth middleware has succeeded
\* (an identity is attached) before the route's validators or handler run:
\* every request in flight past its arrival, and every request that acted on
\* a validation result, read or wrote the store or compared an owner, is
\* authenticated; a request the middleware rejected did none of these; and
\* the store only changes in a step of an authenticated request or of the
\* public registration route.
C4_AuthPrecedesHandler ==
  [][/\ \A s \in Slots :
          Protected(reqs'[s].route)
          => /\ reqs'[s].stage > 0 => reqs'[s].user # 0
             /\ reqs'[s].log # {}
                => reqs'[s].user # 0 /\ ~AuthRejected(reqs'[s])
             /\ AuthRejected(reqs'[s]) => reqs'[s].log = {}
     /\ store' # store
        => \E s \in Slots :
             /\ Stepped(s)
             /\ "write" \in reqs'[s].log
             /\ reqs[s].route = "register" \/ reqs[s].user # 0]_vars

\* an authenticated request that compared the owner and then wrote the store
C4_Witness ==
  \E s \in Slots :
    /\ Protected(reqs[s].route)
    /\ reqs[s].user # 0
    /\ {"read", "owner", "write"} \subseteq reqs[s].log
    /\ reqs[s].status = 200

\* ids of the comments of post pid, and of the entries of a profile list
hasComment(pid, cid, owners) ==
  /\ pid \in DOMAIN posts
  /\ \E i \in 1..Len(posts[pid].comments) :
       /\ posts[pid].comments[i].id = cid
       /\ posts[pid].comments[i].user \in owners
hasEntry(list, id, owners) ==
  \E u \in owners \cap DOMAIN profiles :
    \E i \in 1..Len(profiles[u][list]) : profiles[u][list][i] = id
\* the delete request r names a resource that exists and whose owner is in
\* owners
Targets(r, owners) ==
  \/ r.route = "deletePost" /\ r.pid \in DOMAIN posts
       /\ posts[r.pid].user \in owners
  \/ r.route = "deleteComment" /\ hasComment(r.pid, r.sid, owners)
  \/ r.route = "deleteExperience" /\ hasEntry("experience", r.sid, owners)
  \/ r.route = "deleteEducation" /\ hasEntry("education", r.sid, owners)
Others(r) == (1..cap.users) \ {r.user}

\* the caller has a profile of its own for the entry routes to search
HasProfile(r) ==
  r.route \in {"deleteExperience", "deleteEducation"}
  => r.user \in DOMAIN profiles

\* C5: a delete request for a resource (post, comment, experience entry,
\* education entry) owned by another identity changes no store record and is
\* answered 401 {msg: "User not Authorized!"}.  (Stated for callers that
\* have a profile, and for store operations that do not fail.)
C5_ForeignDeleteRejected ==
  [][\A s \in Slots :
       (Stepped(s) /\ InHandler(reqs[s]) /\ Targets(reqs[s], Others(reqs[s]))
          /\ HasProfile(reqs[s]) /\ reqs'[s].fault # "store")
       => /\ store' = store
          /\ reqs'[s].stage = 0
             => /\ reqs'[s].status = 401
                /\ reqs'[s].msg = "User not Authorized!"]_vars

without(seq, x) == SelectSeq(seq, LAMBDA e : e # x)
\* the store after exactly the resource named by r is removed
Removed(r) ==
  CASE r.route = "deletePost" ->
         <<users, profiles, Without(posts, r.pid)>>
    [] r.route = "deleteComment" ->
         <<users, profiles,
           [posts EXCEPT ![r.pid].comments =
              SelectSeq(@, LAMBDA c : c.id # r.sid)]>>
    [] r.route = "deleteExperience" ->
         <<users,
           [profiles EXCEPT ![r.user].experience = without(@, r.sid)], posts>>
    [] r.route = "deleteEducation" ->
         <<users,
           [profiles EXCEPT ![r.user].education = without(@, r.sid)], posts>>

\* C6: a delete request for a resource owned by the caller is answered 200
\* and removes that resource and nothing else (so every surviving record
\* keeps its owner).
C6_OwnDeleteSucceeds ==
  [][\A s \in Slots :
       (Stepped(s) /\ InHandler(reqs[s]) /\ Targets(reqs[s], {reqs[s].user})
          /\ reqs'[s].fault # "store" /\ reqs'[s].stage = 0)
       => /\ reqs'[s].status = 200
          /\ store' = Removed(reqs[s])]_vars

\* the request r names, by a well-formed id, a post or a comment of a post
\* that does not exist
MissingTarget(r) ==
  /\ r.route \in {"deletePost", "likePost", "unlikePost", "addComment",
                  "deleteComment"}
  /\ r.pid # BadId
  /\ \/ r.pid \notin DOMAIN posts
     \/ r.route = "deleteComment" /\ ~hasComment(r.pid, r.sid, 1..cap.users)

\* C7: a request (with a valid body) that targets a missing post or comment
\* is answered 404, never 401 or 500, without an ownership comparison and
\* without a change of the store.
C7_MissingTargetNotFound ==
  [][\A s \in Slots :
       (Stepped(s) /\ InHandler(reqs[s]) /\ MissingTarget(reqs[s])
          /\ reqs[s].valid /\ reqs'[s].fault # "store")
       => /\ store' = store
          /\ "owner" \notin reqs'[s].log
          /\ reqs'[s].stage = 0 => reqs'[s].status = 404]_vars

emailStored(email) == \E u \in DOMAIN users : users[u].email = email

\* C8: a valid registration whose email no stored user has persists exactly
\* one new user, with that email, and is answered 200 with a token for that
\* user; one whose email a stored user has is answered 400 "User Already
\* exists!", persists nothing and issues no token (store failures and
\* signing errors aside).  Tokens are issued by nothing else.
C8_RegisterOnce ==
  [][/\ \A s \in Slots :
          LET r == reqs[s]
              q == reqs'[s]
          IN (Stepped(s) /\ r.route = "register" /\ InHandler(r) /\ r.valid
                /\ q.fault = "none")
             => CASE r.hpc = "start" /\ emailStored(r.email) ->
                       /\ q.status = 400
                       /\ q.msg = "User Already exists!"
                       /\ store' = store /\ issued' = issued
                  [] r.hpc = "start" /\ ~emailStored(r.email) ->
                       /\ q.hpc = "save" /\ q.status = 0
                       /\ store' = store /\ issued' = issued
                  [] r.hpc = "save" ->
                       /\ q.hpc = "sign" /\ q.status = 0
                       /\ q.user \notin DOMAIN users
                       /\ users' = With(users, q.user, [email |-> r.email])
                       /\ profiles' = profiles /\ posts' = posts
                       /\ issued' = issued
                  [] r.hpc = "sign" ->
                       /\ q.status = 200 /\ q.msg = "token"
                       /\ store' = store
                       /\ Cardinality(issued' \ issued) = 1
                       /\ \A t \in issued' \ issued : t.user = r.user
     /\ issued' # issued
        => \E s \in Slots : /\ reqs[s].route = "register"
                            /\ reqs'[s].status = 200]_vars

\* the second registration with a stored email has been refused
C8_Witness ==
  \E s \in Slots :
    /\ reqs[s].route = "register"
    /\ reqs[s].status = 400
    /\ reqs[s].msg = "User Already exists!"
    /\ issued # {}
    /\ Cardinality(DOMAIN users) = 1

\* C9: a failure raised while a handler runs (a store operation that fails,
\* a dereference of a missing document, a signing error) has been answered
\* with a 500, and no exception has escaped a handler.
C9_FailuresAnswered500 ==
  /\ ~crashed
  /\ \A s \in Slots :
       reqs[s].fault \in {"store", "deref", "sign"} => reqs[s].status = 500

\* C10: a DELETE api/profile answered 200 leaves no profile, no user record
\* and no post of the caller, and leaves the records of the others alone.
C10_AccountErased ==
  [][\A s \in Slots :
       (Stepped(s) /\ reqs[s].route = "deleteProfile"
          /\ reqs'[s].status = 200)
       => LET a == reqs[s].user IN
          /\ a \notin DOMAIN profiles'
          /\ a \notin DOMAIN users'
          /\ \A p \in DOMAIN posts' : posts'[p].user # a
          /\ \A u \in (DOMAIN users) \ {a} :
               u \in DOMAIN users' /\ users'[u] = users[u]
          /\ \A p \in DOMAIN posts :
               posts[p].user # a => p \in DOMAIN posts' /\ posts'[p] = posts[p]]_vars

\* the request in slot s has looked up a removal index and found none
Missed(s) == "miss" \in reqs'[s].log /\ reqs'[s].route # "idle"

\* C11: a delete-by-id request (experience entry, education entry, and the
\* removal-index step of delete comment and unlike) whose index lookup
\* yields -1 never changes the store afterwards and is answered 404, never
\* with a success.
C11_IndexMissNotFound ==
  [][\A s \in Slots :
       (Stepped(s) /\ Missed(s) /\ reqs'[s].fault # "store")
       => /\ store' = store
          /\ reqs'[s].stage = 0 => reqs'[s].status = 404]_vars

inLikes(likes, u) == \E i \in DOMAIN likes : likes[i] = u
NoDuplicateLikes ==
  \A p \in DOMAIN posts :
    \A i, j \in DOMAIN posts[p].likes :
      posts[p].likes[i] = posts[p].likes[j] => i = j

tokensFor(email) ==
  {t \in issued : t.user \in DOMAIN users /\ users[t.user].email = email}

\* C13: in every reachable state, also when the existence checks and the
\* writes of two registrations with one email interleave, the store holds at
\* most one user record per email and at most one token has been handed out
\* for it.
C13_OneUserPerEmail ==
  \A e \in Emails :
    /\ Cardinality({u \in DOMAIN users : users[u].email = e}) <= 1
    /\ Cardinality(tokensFor(e)) <= 1
====
